---- MODULE Spec2Model ----
(***************************************************************************)
(* SimpleWorkTime (src/main.py): the interactive session tracker of        *)
(* main(), the Org log parser parse_org_log() and the two commands that    *)
(* turn a parsed log into calendar events (--log and --add), all of them   *)
(* calling create_calendar_event().                                        *)
(*                                                                         *)
(* Time is counted in ticks, TicksPerSec ticks to the second, so that the  *)
(* sub-second part of datetime.now() is present in the model.              *)
(***************************************************************************)
EXTENDS Integers, Sequences, FiniteSets

VARIABLES
    pc,          \* control position of the running command
    working,     \* main(): working
    start_time,  \* main(): start_time (None is modelled as NoTime)
    end_time,    \* main(): end_time
    total_time,  \* main(): total_time, in ticks
    report,      \* the printed "Total work time" as <<hours, minutes, seconds>>
    now,         \* datetime.now(), in ticks
    nticks,      \* how often the clock has advanced (bounds the model)
    inputs,      \* history: one record per return of input(), see Input
    segno,       \* history: number of the work segment opened last
    added,       \* history: segment number of every addition to total_time
    handed,      \* every call of create_calendar_event: seg, start, end, outcome
    persisted,   \* the calendar: the events inserted, in order
    mode,        \* "track", "log" (--log) or "add" (--add)
    log_entry,   \* the text of the log, a sequence of characters and clock tokens
    parsed,      \* the result of parse_org_log, or NoParsed
    idx,         \* position of the loop over clock_events
    message      \* what the command printed about an error, or NoMessage

vars == <<pc, working, start_time, end_time, total_time, report, now, nticks,
          inputs, segno, added, handed, persisted, mode, log_entry, parsed,
          idx, message>>

trackerVars == <<working, start_time, end_time, total_time, report, inputs,
                 segno, added>>
logVars == <<log_entry, parsed, idx, message>>

----------------------------------------------------------------------------
(* Bounds of the model *)

TicksPerSec == 2
MaxInputs == 4
MaxTicks == 3
MaxTextLines == 3

(* Program constants *)

MinSeconds == 10
SecondsPerDay == 24 * 60 * 60

NoTime == -1
NoReport == <<>>
NoParsed == [error |-> "none", task_name |-> <<>>, clock_events |-> <<>>]
NoMessage == [prefix |-> "", error |-> "none"]

Sec(n) == n * TicksPerSec

(* The amounts by which the clock advances between two events. *)
Deltas == {1, Sec(MinSeconds) - 1, Sec(MinSeconds), Sec(3661)}

----------------------------------------------------------------------------
(* timedelta and create_calendar_event *)

(* timedelta.seconds of a normalised timedelta: the seconds component,     *)
(* 0 .. 86399, the days being held apart (negative differences have        *)
(* days < 0 and 0 <= seconds).                                             *)
TdSeconds(d) == (d % Sec(SecondsPerDay)) \div TicksPerSec

(* timedelta.total_seconds(), kept in ticks *)
TotalSeconds(d) == d

(* line 46: if (end_time - start_time).seconds < 10 *)
TooShort(start, end) == TdSeconds(end - start) < MinSeconds

SinkOutcomes(start, end) ==
    IF TooShort(start, end) THEN {"skipped"} ELSE {"inserted", "failed"}

Call(seg, start, end, outcome) ==
    [seg |-> seg, start |-> start, end |-> end, outcome |-> outcome]

Event(c) == [start |-> c.start, end |-> c.end]

(* The call entered last returns (or raises) with outcome o. *)
create_calendar_event(o) ==
    LET c == handed[Len(handed)] IN
    /\ o \in SinkOutcomes(c.start, c.end)
    /\ handed' = [handed EXCEPT ![Len(handed)].outcome = o]
    /\ persisted' = IF o = "inserted" THEN Append(persisted, Event(c))
                                      ELSE persisted

----------------------------------------------------------------------------
(* The session tracker: main(), lines 325-372 *)

Lower(ch) ==
    CASE ch = "E" -> "e" [] ch = "X" -> "x" [] ch = "I" -> "i"
      [] ch = "T" -> "t" [] OTHER -> ch

lower(s) == [i \in 1..Len(s) |-> Lower(s[i])]

(* line 332: user_input.lower() == 'exit' *)
IsExit(user_input) == lower(user_input) = <<"e", "x", "i", "t">>

InputLines ==
    { <<>>, <<"x">>, <<" ", "e", "x", "i", "t">>, <<"e", "x", "i", "t", " ">>,
      <<"e", "x", "i", "t">>, <<"E", "X", "I", "T">>, <<"E", "x", "i", "t">> }

(* mutant: a segment the sink skips is not counted *)
AddElapsed_SkipShort(total, start, end) ==
    IF TooShort(start, end) THEN total ELSE total + TotalSeconds(end - start)

(* lines 335, 348, 356: total_time += (end_time - start_time).total_seconds() *)
AddElapsed(total, start, end) == total + TotalSeconds(end - start)

(* lines 367-372: divmod(total_time, 3600), divmod(remainder, 60), int() *)
FormatHMS(total) ==
    LET hours == total \div Sec(3600)
        remainder == total % Sec(3600)
        minutes == remainder \div Sec(60)
        seconds == remainder % Sec(60)
    IN  <<hours, minutes, seconds \div TicksPerSec>>

(* history: what input() returned, when, and the tracker's state then *)
Input(kind) ==
    [time |-> now, kind |-> kind, working |-> working,
     start_time |-> start_time, total_time |-> total_time,
     ncalls |-> Len(handed)]

(* end_time = now; total_time += ...; create_calendar_event is entered *)
CloseSegment ==
    /\ end_time' = now
    /\ total_time' = AddElapsed(total_time, start_time, now)
    /\ added' = Append(added, segno)
    /\ handed' = Append(handed, Call(segno, start_time, now, "pending"))

(* the break out of the loop and the report of lines 367-372 *)
Break(total) ==
    /\ report' = FormatHMS(total)
    /\ pc' = "done"

Blocked == pc \in {"input", "pause_call", "exit_call", "except_call"}

Tick ==
    /\ mode = "track"
    /\ Blocked
    /\ nticks < MaxTicks
    /\ \E d \in Deltas : now' = now + d
    /\ nticks' = nticks + 1
    /\ UNCHANGED <<pc, trackerVars, handed, persisted, mode, logVars>>

(* lines 331-332, 354-365: a line that is not exit *)
PlainLine ==
    /\ pc = "input"
    /\ Len(inputs) < MaxInputs
    /\ \E user_input \in InputLines :
          /\ ~IsExit(user_input)
          /\ inputs' = Append(inputs, Input("line"))
    /\ IF working
       THEN /\ CloseSegment
            /\ pc' = "pause_call"
            /\ UNCHANGED <<working, start_time, segno>>
       ELSE /\ start_time' = now
            /\ working' = TRUE
            /\ segno' = segno + 1
            /\ UNCHANGED <<pc, end_time, total_time, added, handed>>
    /\ UNCHANGED <<report, now, nticks, persisted, mode, logVars>>

(* lines 357-361: the call of the pause branch returns *)
PauseCallReturns ==
    /\ pc = "pause_call"
    /\ \E o \in {"skipped", "inserted"} : create_calendar_event(o)
    /\ working' = FALSE
    /\ pc' = "input"
    /\ UNCHANGED <<start_time, end_time, total_time, report, now, nticks,
                   inputs, segno, added, mode, logVars>>

(* mutant: the failure is swallowed and the loop goes on *)
PauseCallFails_Swallowed ==
    /\ pc = "pause_call"
    /\ create_calendar_event("failed")
    /\ working' = FALSE
    /\ pc' = "input"
    /\ UNCHANGED <<start_time, end_time, total_time, report, now, nticks,
                   inputs, segno, added, mode, logVars>>

(* lines 357-359: the call raises; nothing around it catches *)
PauseCallFails ==
    /\ pc = "pause_call"
    /\ create_calendar_event("failed")
    /\ pc' = "crashed"
    /\ UNCHANGED <<trackerVars, now, nticks, mode, logVars>>

(* mutant: exit breaks out of the loop without closing the segment *)
ExitLine_NoClose ==
    /\ pc = "input"
    /\ \E user_input \in InputLines :
          /\ IsExit(user_input)
          /\ inputs' = Append(inputs, Input("exit"))
    /\ Break(total_time)
    /\ UNCHANGED <<working, start_time, end_time, total_time, segno, added,
                   handed, now, nticks, persisted, mode, logVars>>

(* lines 331-343: the line is exit *)
ExitLine ==
    /\ pc = "input"
    /\ \E user_input \in InputLines :
          /\ IsExit(user_input)
          /\ inputs' = Append(inputs, Input("exit"))
    /\ IF working
       THEN /\ CloseSegment
            /\ pc' = "exit_call"
            /\ UNCHANGED report
       ELSE /\ Break(total_time)
            /\ UNCHANGED <<end_time, total_time, added, handed>>
    /\ UNCHANGED <<working, start_time, segno, now, nticks, persisted, mode,
                   logVars>>

(* lines 336-343: the call of the exit branch returns, then break *)
ExitCallReturns ==
    /\ pc = "exit_call"
    /\ \E o \in {"skipped", "inserted"} : create_calendar_event(o)
    /\ Break(total_time)
    /\ UNCHANGED <<working, start_time, end_time, total_time, now, nticks,
                   inputs, segno, added, mode, logVars>>

(* lines 336-344: the call raises an error that is neither EOFError nor    *)
(* KeyboardInterrupt, so the except clause lets it through                 *)
ExitCallFails ==
    /\ pc = "exit_call"
    /\ create_calendar_event("failed")
    /\ pc' = "crashed"
    /\ UNCHANGED <<trackerVars, now, nticks, mode, logVars>>

(* mutant: the except clause breaks without closing the segment *)
EndOfInput_NoClose ==
    /\ pc = "input"
    /\ \E kind \in {"eof", "interrupt"} : inputs' = Append(inputs, Input(kind))
    /\ Break(total_time)
    /\ UNCHANGED <<working, start_time, end_time, total_time, segno, added,
                   handed, now, nticks, persisted, mode, logVars>>

(* lines 331, 344-352: input() raises EOFError or KeyboardInterrupt *)
EndOfInput ==
    /\ pc = "input"
    /\ \E kind \in {"eof", "interrupt"} : inputs' = Append(inputs, Input(kind))
    /\ IF working
       THEN /\ CloseSegment
            /\ pc' = "except_call"
            /\ UNCHANGED report
       ELSE /\ Break(total_time)
            /\ UNCHANGED <<end_time, total_time, added, handed>>
    /\ UNCHANGED <<working, start_time, segno, now, nticks, persisted, mode,
                   logVars>>

(* lines 349-352: the call of the except clause returns, then break *)
ExceptCallReturns ==
    /\ pc = "except_call"
    /\ \E o \in {"skipped", "inserted"} : create_calendar_event(o)
    /\ Break(total_time)
    /\ UNCHANGED <<working, start_time, end_time, total_time, now, nticks,
                   inputs, segno, added, mode, logVars>>

(* lines 349-351: the call raises inside the except clause *)
ExceptCallFails ==
    /\ pc = "except_call"
    /\ create_calendar_event("failed")
    /\ pc' = "crashed"
    /\ UNCHANGED <<trackerVars, now, nticks, mode, logVars>>

InitTrack ==
    /\ pc = "input"
    /\ working = FALSE
    /\ start_time = NoTime
    /\ end_time = NoTime
    /\ total_time = 0
    /\ report = NoReport
    /\ now = 0
    /\ nticks = 0
    /\ inputs = <<>>
    /\ segno = 0
    /\ added = <<>>
    /\ handed = <<>>
    /\ persisted = <<>>
    /\ mode = "track"
    /\ log_entry = <<>>
    /\ parsed = NoParsed
    /\ idx = 0
    /\ message = NoMessage

NextTrack ==
    \/ Tick
    \/ PlainLine
    \/ PauseCallReturns
    \/ PauseCallFails
    \/ ExitLine
    \/ ExitCallReturns
    \/ ExitCallFails
    \/ EndOfInput
    \/ ExceptCallReturns
    \/ ExceptCallFails

SpecTrack == InitTrack /\ [][NextTrack]_vars

(* KeyboardInterrupt may also arrive while a call of create_calendar_event *)
(* is blocked on the network: the insert has or has not reached the        *)
(* calendar when the exception is raised.                                  *)
Interrupted(h) ==
    LET c == h[Len(h)] IN
    /\ \E reached \in IF TooShort(c.start, c.end) THEN {FALSE} ELSE {TRUE, FALSE} :
          persisted' = IF reached THEN Append(persisted, Event(c)) ELSE persisted

(* lines 336-352: the interrupt is raised inside the try block of the exit *)
(* branch, so the except clause of line 344 runs with working still True   *)
InterruptInExitCall ==
    /\ pc = "exit_call"
    /\ Interrupted(handed)
    /\ end_time' = now
    /\ total_time' = AddElapsed(total_time, start_time, now)
    /\ added' = Append(added, segno)
    /\ handed' = Append([handed EXCEPT ![Len(handed)].outcome = "interrupted"],
                        Call(segno, start_time, now, "pending"))
    /\ pc' = "except_call"
    /\ UNCHANGED <<working, start_time, report, now, nticks, inputs, segno,
                   mode, logVars>>

(* lines 349-351 and 357-359: outside the try block the interrupt is not   *)
(* caught                                                                  *)
InterruptInOtherCall ==
    /\ pc \in {"pause_call", "except_call"}
    /\ Interrupted(handed)
    /\ handed' = [handed EXCEPT ![Len(handed)].outcome = "interrupted"]
    /\ pc' = "crashed"
    /\ UNCHANGED <<trackerVars, now, nticks, mode, logVars>>

NextIntr ==
    \/ NextTrack
    \/ InterruptInExitCall
    \/ InterruptInOtherCall

SpecIntr == InitTrack /\ [][NextIntr]_vars

----------------------------------------------------------------------------
(* Properties of the session tracker *)

InCall == pc \in {"pause_call", "exit_call", "except_call"}
LastInput == inputs[Len(inputs)]
Terminating(kind) == kind \in {"exit", "eof", "interrupt"}

(* The work segments that were closed: the inputs alternate between        *)
(* resuming and closing, so segment i runs from input 2i-1 to input 2i.    *)
ClosedSegments == 1..(Len(inputs) \div 2)
SegStart(i) == inputs[2 * i - 1].time
SegEnd(i) == inputs[2 * i].time

RECURSIVE SumOfSegments(_)
SumOfSegments(n) ==
    IF n = 0 THEN 0 ELSE SumOfSegments(n - 1) + (SegEnd(n) - SegStart(n))

(* C2: after k plain lines and an exit line the tracker has handed exactly *)
(* ceil(k/2) intervals to the Event Sink, the i-th one running from the    *)
(* time of the line that resumed segment i to the time of the line (plain  *)
(* or exit) that closed it, and the sink is never called while Idle.       *)
C2_OneIntervalPerSegment ==
    /\ InCall => working
    /\ \A i \in 1..Len(handed) : inputs[handed[i].seg * 2].working
    /\ (pc = "done" /\ LastInput.kind = "exit") =>
          LET k == Len(inputs) - 1 IN
          /\ \A i \in 1..k : inputs[i].kind = "line"
          /\ Len(handed) = (k + 1) \div 2
          /\ \A i \in 1..Len(handed) :
                /\ handed[i].seg = i
                /\ handed[i].start = SegStart(i)
                /\ handed[i].end = SegEnd(i)

(* C2 witness: three plain lines and an exit line, two intervals handed *)
C2_Witness ==
    /\ pc = "done"
    /\ Len(inputs) = 4
    /\ LastInput.kind = "exit"
    /\ Len(handed) = 2
    /\ handed[2].end > handed[2].start

(* C3: at normal termination the reported total is the sum of the closed   *)
(* segments' durations in whole seconds, whether the sink skipped them or  *)
(* not; idle time is not counted, and exit from the initial state reports  *)
(* 00:00:00.                                                               *)
C3_ReportIsSumOfSegments ==
    pc = "done" =>
       /\ Len(report) = 3
       /\ report[2] \in 0..59
       /\ report[3] \in 0..59
       /\ report[1] * 3600 + report[2] * 60 + report[3]
             = SumOfSegments(Len(inputs) \div 2) \div TicksPerSec
       /\ (Len(inputs) = 1 => report = <<0, 0, 0>>)

(* C3 witness: a run that ends with a skipped segment counted in a total   *)
(* of more than an hour, and with idle time between two segments           *)
C3_Witness ==
    /\ pc = "done"
    /\ \E i \in 1..Len(handed) :
          handed[i].outcome = "skipped" /\ handed[i].end > handed[i].start
    /\ report[1] > 0
    /\ Len(inputs) >= 4
    /\ inputs[3].time > inputs[2].time

(* C4: from the state in which the terminating signal arrives, an exit     *)
(* line and an end-of-input or interrupt at the input read have the same   *)
(* effect: one closing call if Working and none if Idle, the same total,   *)
(* and the loop is left.                                                   *)
C4_EndOfInputLikeExit ==
    (inputs # <<>> /\ Terminating(LastInput.kind)) =>
       LET sig == LastInput IN
       /\ pc \in {"exit_call", "except_call", "done", "crashed"}
       /\ ~sig.working => pc = "done"
       /\ Len(handed) = sig.ncalls + (IF sig.working THEN 1 ELSE 0)
       /\ sig.working =>
             /\ handed[Len(handed)].start = sig.start_time
             /\ handed[Len(handed)].end = sig.time
             /\ pc = "done" =>
                   handed[Len(handed)].outcome =
                      IF TooShort(sig.start_time, sig.time) THEN "skipped"
                                                            ELSE "inserted"
       /\ total_time = sig.total_time
             + (IF sig.working THEN sig.time - sig.start_time ELSE 0)
       /\ pc = "done" => report = FormatHMS(total_time)

(* C4 witness: end of input while Working, the closing interval inserted *)
C4_Witness ==
    /\ pc = "done"
    /\ LastInput.kind \in {"eof", "interrupt"}
    /\ LastInput.working
    /\ handed[Len(handed)].outcome = "inserted"

(* C5: a failure of the Event Sink is not caught by the tracker: once a    *)
(* call has failed the process is over, no further input is read, the sink *)
(* is not called again for that segment and no total is reported.          *)
C5_SinkFailurePropagates ==
    \A i \in 1..Len(handed) :
       handed[i].outcome = "failed" =>
          /\ pc = "crashed"
          /\ i = Len(handed)
          /\ report = NoReport
          /\ LastInput.ncalls = i - 1
          /\ \A j \in 1..Len(handed) : handed[j].seg = handed[i].seg => j = i

(* C5 witness: the second segment is closed by a pause line and the sink   *)
(* fails                                                                   *)
C5_Witness ==
    /\ pc = "crashed"
    /\ Len(handed) = 2
    /\ handed[2].outcome = "failed"
    /\ LastInput.kind = "line"

(* C10: also when an interrupt arrives while a call of the Event Sink is   *)
(* blocked, every work segment is handed to the sink at most once and its  *)
(* duration is added to the total at most once.                            *)
C10_SegmentHandedOnce ==
    /\ \A i, j \in 1..Len(handed) : handed[i].seg = handed[j].seg => i = j
    /\ \A i, j \in 1..Len(added) : added[i] = added[j] => i = j

----------------------------------------------------------------------------
(* The log text.  A text is a sequence of tokens: single characters, and   *)
(* clock tokens standing for the characters "CLOCK: [s]--[e]" that the     *)
(* pattern of line 188 matches, s and e being the two bracketed texts.     *)

Ch(c) == [k |-> "ch", c |-> c]
Stamp(day, wd, hh, mm) == [day |-> day, wd |-> wd, hh |-> hh, mm |-> mm]
Clock(s, e) == [k |-> "clock", s |-> s, e |-> e]

IsCh(t, c) == t.k = "ch" /\ t.c = c
IsClock(t) == t.k = "clock"
(* \s of the pattern, and what str.strip() removes *)
IsSpace(t) == IsCh(t, " ") \/ IsCh(t, "\n")

WeekdayNames == {"Mon", "Tue", "Wed", "Thu", "Fri", "Sat", "Sun"}

(* line 194: datetime.strptime(text, '%Y-%m-%d %a %H:%M'); the weekday     *)
(* must be a weekday name but is not compared with the date                *)
WellFormed(ts) == ts.wd \in WeekdayNames /\ ts.hh \in 0..23 /\ ts.mm \in 0..59

strptime(ts) == Sec(ts.day * SecondsPerDay + ts.hh * 3600 + ts.mm * 60)

T1 == Stamp(0, "Wed", 12, 47)
T2 == Stamp(0, "Wed", 12, 48)
T3 == Stamp(1, "Wed", 12, 47)
NoWeekday == Stamp(0, "", 12, 47)
Hour25 == Stamp(0, "Wed", 25, 0)

LineShapes ==
    { <<>>,
      <<Ch(" ")>>,
      <<Ch("a")>>,
      <<Ch("*")>>,
      <<Ch("*"), Ch(" ")>>,
      <<Ch("*"), Ch("*"), Ch(" "), Ch("a"), Ch(" ")>>,
      <<Ch(" "), Ch("*"), Ch(" "), Ch("a")>>,
      <<Clock(T1, T2)>>,
      <<Clock(T2, T1)>>,
      <<Clock(T1, T3)>>,
      <<Clock(T2, T2), Ch(" "), Ch("a")>>,
      <<Clock(NoWeekday, T2)>>,
      <<Clock(T1, Hour25)>> }

RECURSIVE Join(_)
Join(lines) ==
    IF lines = <<>> THEN <<>>
    ELSE IF Len(lines) = 1 THEN lines[1]
    ELSE lines[1] \o <<Ch("\n")>> \o Join(Tail(lines))

Texts ==
    { Join(ls) : ls \in UNION { [1..n -> LineShapes] : n \in 0..MaxTextLines } }

----------------------------------------------------------------------------
(* parse_org_log, lines 166-198 *)

Min(S) == CHOOSE x \in S : \A y \in S : x <= y

IsStar(t) == IsCh(t, "*")

(* the first index >= i that holds no star (no whitespace, a newline),     *)
(* Len(text) + 1 if there is none: where a greedy run starting at i ends   *)
SkipStars(text, i) ==
    Min({ j \in i..(Len(text) + 1) : j = Len(text) + 1 \/ ~IsStar(text[j]) })

SkipSpaces(text, i) ==
    Min({ j \in i..(Len(text) + 1) : j = Len(text) + 1 \/ ~IsSpace(text[j]) })

SkipToNewline(text, i) ==
    Min({ j \in i..(Len(text) + 1) : j = Len(text) + 1 \/ IsCh(text[j], "\n") })

(* ^ under re.MULTILINE *)
AtLineStart(text, p) == p = 1 \/ IsCh(text[p - 1], "\n")

(* line 182: the positions where the task-name pattern matches: at a line *)
(* start, one or more stars, then at least one whitespace character       *)
TaskNameMatches(text) ==
    { p \in 1..Len(text) :
         /\ AtLineStart(text, p)
         /\ IsStar(text[p])
         /\ LET q == SkipStars(text, p)
            IN  q <= Len(text) /\ IsSpace(text[q]) }

(* group(1) of the match at p: the stars and the whitespace are matched   *)
(* greedily, the group runs to the end of the line                        *)
Group1(text, p) ==
    LET q == SkipStars(text, p)
        r == SkipSpaces(text, q)
        e == SkipToNewline(text, r)
    IN  SubSeq(text, r, e - 1)

RECURSIVE strip(_)
strip(s) ==
    IF s = <<>> THEN s
    ELSE IF IsSpace(s[1]) THEN strip(Tail(s))
    ELSE IF IsSpace(s[Len(s)]) THEN strip(SubSeq(s, 1, Len(s) - 1))
    ELSE s

(* lines 188-189: clock_pattern.findall(log_entry) *)
findall(text) == SelectSeq(text, IsClock)

Parsed(error, task_name, clock_events) ==
    [error |-> error, task_name |-> task_name, clock_events |-> clock_events]

(* mutant: the events come out in reverse order of appearance *)
ParseClocks_Reversed(clock_matches) ==
    [i \in 1..Len(clock_matches) |->
        [start |-> strptime(clock_matches[Len(clock_matches) + 1 - i].s),
         end |-> strptime(clock_matches[Len(clock_matches) + 1 - i].e)]]

(* lines 192-196: the loop over the matches *)
ParseClocks(clock_matches) ==
    [i \in 1..Len(clock_matches) |->
        [start |-> strptime(clock_matches[i].s),
         end |-> strptime(clock_matches[i].e)]]

parse_org_log(text) ==
    IF TaskNameMatches(text) = {}
    THEN Parsed("MissingTaskName", <<>>, <<>>)
    ELSE LET task_name == strip(Group1(text, Min(TaskNameMatches(text))))
             clock_matches == findall(text)
         IN  IF \E i \in 1..Len(clock_matches) :
                    ~WellFormed(clock_matches[i].s) \/ ~WellFormed(clock_matches[i].e)
             THEN Parsed("BadTimestamp", <<>>, <<>>)
             ELSE Parsed("ok", task_name, ParseClocks(clock_matches))

----------------------------------------------------------------------------
(* The commands --log (main, lines 300-308, and create_events_from_log)    *)
(* and --add (add_text)                                                    *)

Message(prefix, error) == [prefix |-> prefix, error |-> error]

(* the call of create_calendar_event for clock_events[idx], as one step *)
CallForEvent(o) ==
    LET ev == parsed.clock_events[idx] IN
    /\ o \in SinkOutcomes(ev.start, ev.end)
    /\ handed' = Append(handed, Call(idx, ev.start, ev.end, o))
    /\ persisted' = IF o = "inserted" THEN Append(persisted, ev) ELSE persisted

(* lines 303-304: the file is read, or open() or read() raises *)
LogRead ==
    /\ mode = "log"
    /\ pc = "open"
    /\ \/ pc' = "parse" /\ UNCHANGED message
       \/ /\ message' = Message("Error processing log file", "OSError")
          /\ pc' = "done"
    /\ UNCHANGED <<trackerVars, now, nticks, handed, persisted, mode,
                   log_entry, parsed, idx>>

(* mutant: an event is created for each clock line as soon as it is       *)
(* parsed, so the lines before a malformed one reach the sink             *)
LogParse_Streaming ==
    /\ mode = "log"
    /\ pc = "parse"
    /\ LET r == parse_org_log(log_entry)
           m == findall(log_entry)
           bad == { i \in 1..Len(m) : ~WellFormed(m[i].s) \/ ~WellFormed(m[i].e) }
       IN  IF r.error = "ok"
           THEN /\ parsed' = r
                /\ idx' = 1
                /\ pc' = "create"
                /\ UNCHANGED <<message, handed>>
           ELSE /\ message' = Message("Error processing log file", r.error)
                /\ pc' = "done"
                /\ handed' = IF r.error = "BadTimestamp"
                              THEN [i \in 1..(Min(bad) - 1) |->
                                      Call(i, strptime(m[i].s), strptime(m[i].e),
                                           "pending")]
                              ELSE handed
                /\ UNCHANGED <<parsed, idx>>
    /\ UNCHANGED <<trackerVars, now, nticks, persisted, mode, log_entry>>

(* lines 215-217 under the try of line 302 *)
LogParse ==
    /\ mode = "log"
    /\ pc = "parse"
    /\ LET r == parse_org_log(log_entry) IN
          IF r.error = "ok"
          THEN /\ parsed' = r
               /\ idx' = 1
               /\ pc' = "create"
               /\ UNCHANGED message
          ELSE /\ message' = Message("Error processing log file", r.error)
               /\ pc' = "done"
               /\ UNCHANGED <<parsed, idx>>
    /\ UNCHANGED <<trackerVars, now, nticks, handed, persisted, mode, log_entry>>

(* lines 220-223, and the except of line 306 for a failing call *)
LogCreate ==
    /\ mode = "log"
    /\ pc = "create"
    /\ idx <= Len(parsed.clock_events)
    /\ \E o \in {"skipped", "inserted", "failed"} :
          /\ CallForEvent(o)
          /\ IF o = "failed"
             THEN /\ message' = Message("Error processing log file", "SinkError")
                  /\ pc' = "done"
                  /\ UNCHANGED idx
             ELSE /\ idx' = idx + 1
                  /\ UNCHANGED <<pc, message>>
    /\ UNCHANGED <<trackerVars, now, nticks, mode, log_entry, parsed>>

(* line 308: return after the loop *)
LogReturn ==
    /\ mode = "log"
    /\ pc = "create"
    /\ idx > Len(parsed.clock_events)
    /\ pc' = "done"
    /\ UNCHANGED <<trackerVars, now, nticks, handed, persisted, mode, logVars>>

(* lines 100-109: the temporary file is read *)
AddRead ==
    /\ mode = "add"
    /\ pc = "open"
    /\ \/ pc' = "parse" /\ UNCHANGED message
       \/ /\ message' = Message("Error reading temporary file", "OSError")
          /\ pc' = "done"
    /\ UNCHANGED <<trackerVars, now, nticks, handed, persisted, mode,
                   log_entry, parsed, idx>>

(* lines 112-118 *)
AddParse ==
    /\ mode = "add"
    /\ pc = "parse"
    /\ LET r == parse_org_log(log_entry) IN
          IF r.error = "ok"
          THEN /\ parsed' = r
               /\ idx' = 1
               /\ pc' = "create"
               /\ UNCHANGED message
          ELSE /\ message' = Message("Error parsing log entry", r.error)
               /\ pc' = "done"
               /\ UNCHANGED <<parsed, idx>>
    /\ UNCHANGED <<trackerVars, now, nticks, handed, persisted, mode, log_entry>>

(* lines 121-124: nothing catches a failing call *)
AddCreate ==
    /\ mode = "add"
    /\ pc = "create"
    /\ idx <= Len(parsed.clock_events)
    /\ \E o \in {"skipped", "inserted", "failed"} :
          /\ CallForEvent(o)
          /\ IF o = "failed"
             THEN pc' = "crashed" /\ UNCHANGED idx
             ELSE idx' = idx + 1 /\ UNCHANGED pc
    /\ UNCHANGED <<trackerVars, now, nticks, mode, log_entry, parsed, message>>

(* line 125 *)
AddReturn ==
    /\ mode = "add"
    /\ pc = "create"
    /\ idx > Len(parsed.clock_events)
    /\ pc' = "done"
    /\ UNCHANGED <<trackerVars, now, nticks, handed, persisted, mode, logVars>>

InitLog ==
    /\ pc = "open"
    /\ working = FALSE
    /\ start_time = NoTime
    /\ end_time = NoTime
    /\ total_time = 0
    /\ report = NoReport
    /\ now = 0
    /\ nticks = 0
    /\ inputs = <<>>
    /\ segno = 0
    /\ added = <<>>
    /\ handed = <<>>
    /\ persisted = <<>>
    /\ mode \in {"log", "add"}
    /\ log_entry \in Texts
    /\ parsed = NoParsed
    /\ idx = 0
    /\ message = NoMessage

NextLog ==
    \/ LogRead
    \/ LogParse
    \/ LogCreate
    \/ LogReturn
    \/ AddRead
    \/ AddParse
    \/ AddCreate
    \/ AddReturn

SpecLog == InitLog /\ [][NextLog]_vars

----------------------------------------------------------------------------
(* Properties of the parser and of the log commands *)

ClockPositions(text) == { i \in 1..Len(text) : IsClock(text[i]) }

(* the position of the n-th clock line of the text *)
NthClock(text, n) ==
    CHOOSE p \in ClockPositions(text) :
       Cardinality({ q \in ClockPositions(text) : q < p }) = n - 1

(* a line of one or more stars, blanks, then a name on the same line *)
HasTaskNameLine(text) ==
    \E p \in 1..Len(text) :
       /\ AtLineStart(text, p)
       /\ IsStar(text[p])
       /\ LET q == SkipStars(text, p)
              r == Min({ j \in q..(Len(text) + 1) :
                            j = Len(text) + 1 \/ ~IsCh(text[j], " ") })
          IN  /\ q <= Len(text)
              /\ IsCh(text[q], " ")
              /\ r <= Len(text)
              /\ ~IsCh(text[r], "\n")

AllWellFormed(text) ==
    \A p \in ClockPositions(text) : WellFormed(text[p].s) /\ WellFormed(text[p].e)

ParseReturned == pc \notin {"open", "parse"} /\ message.error # "OSError"

(* C1: create_calendar_event skips the event exactly when end - start is   *)
(* under 10 seconds, and inserts it otherwise.                             *)
C1_SkippedIffUnderTenSeconds ==
    \A i \in 1..Len(handed) :
       handed[i].outcome # "pending" =>
          ((handed[i].outcome = "skipped")
              <=> (handed[i].end - handed[i].start < Sec(MinSeconds)))

(* C6: a valid text with N clock lines is parsed into exactly N intervals, *)
(* the i-th one carrying the start and end of the i-th clock line in order *)
(* of appearance; N = 0 gives an empty sequence and no error.              *)
C6_IntervalsInFileOrder ==
    ParseReturned =>
       /\ (HasTaskNameLine(log_entry) /\ AllWellFormed(log_entry))
             => parsed.error = "ok"
       /\ parsed.error = "ok" =>
             /\ Len(parsed.clock_events) = Cardinality(ClockPositions(log_entry))
             /\ \A i \in 1..Len(parsed.clock_events) :
                   LET c == log_entry[NthClock(log_entry, i)] IN
                   /\ parsed.clock_events[i].start = strptime(c.s)
                   /\ parsed.clock_events[i].end = strptime(c.e)

(* C6 witness: a valid text whose two clock lines are out of chronological *)
(* order has been parsed                                                    *)
C6_Witness ==
    /\ ParseReturned
    /\ HasTaskNameLine(log_entry)
    /\ parsed.error = "ok"
    /\ Len(parsed.clock_events) = 2
    /\ parsed.clock_events[1].start > parsed.clock_events[2].start

(* C7: a text without a task-name line fails with MissingTaskName, and a   *)
(* LoggedTask that is returned has a non-empty name.                       *)
C7_MissingTaskNameOrNonEmptyName ==
    ParseReturned =>
       /\ ~HasTaskNameLine(log_entry) => message.error = "MissingTaskName"
       /\ parsed.error = "ok" => parsed.task_name # <<>>

(* C8: with --log, a failure to read or to parse the file is reported as a *)
(* message, the process exits normally and the Event Sink has not been     *)
(* called, not even for the clock lines before a malformed one.            *)
C8_ParseErrorCreatesNothing ==
    (mode = "log" /\ pc \notin {"open", "parse"}) =>
       /\ pc # "crashed"
       /\ (message.error = "OSError" \/ parse_org_log(log_entry).error # "ok") =>
             /\ pc = "done"
             /\ message.prefix = "Error processing log file"
             /\ message.error \in {"OSError", parse_org_log(log_entry).error}
             /\ handed = <<>>
             /\ persisted = <<>>

(* C8 witness: the second clock line is malformed, the first one is not *)
C8_Witness ==
    /\ mode = "log"
    /\ pc = "done"
    /\ message.error = "BadTimestamp"
    /\ Len(findall(log_entry)) = 2
    /\ WellFormed(findall(log_entry)[1].s)
    /\ WellFormed(findall(log_entry)[1].e)
    /\ ~TooShort(strptime(findall(log_entry)[1].s), strptime(findall(log_entry)[1].e))

(* C9: every interval the parser returns, and every interval the sink      *)
(* persists, ends after it starts.                                         *)
C9_EndAfterStart ==
    /\ \A i \in 1..Len(parsed.clock_events) :
          parsed.clock_events[i].end > parsed.clock_events[i].start
    /\ \A i \in 1..Len(persisted) : persisted[i].end > persisted[i].start

====
